---- MODULE Spec2Model ----
(***************************************************************************)
(* Stock-aware retrieval and substitution resolution of "The Backend"      *)
(* (api.py): the inventory manager, the substitution resolver              *)
(* check_stock_logic, the ranker rank_results and the search endpoints.    *)
(*                                                                         *)
(* Conventions.  A Python dict is a function whose DOMAIN is its key set.  *)
(* Python None is the string None, a float NaN is the string NaN (it is    *)
(* what json.loads yields for the literal NaN); quantities, thresholds and *)
(* distances are integers.  An Optional value is a sequence of length 0    *)
(* (None) or 1.  Dates are day numbers.                                    *)
(***************************************************************************)
EXTENDS Integers, Sequences, FiniteSets, TLC

VARIABLES
    INGREDIENT_THRESHOLDS,  \* api.py:67, the override table loaded at startup
    inventory_levels,       \* InventoryManager.inventory_levels
    inventory_csv,          \* inventory_lots.csv as the reload in progress read it
    candidates,             \* patron_search: what find_menu_candidates returned
    checked,                \* patron_search: the candidates after check_stock_logic
    results,                \* patron_search: the response's "results" list
    rank_items,             \* rank_results: its argument
    rank_output,            \* rank_results: its return value
    status_answer,          \* what get_threshold, is_low and is_out returned for a name
    threshold_seen,         \* per name, every value get_threshold has returned so far
    owner_backend,          \* owner flow: the entries inventory_collection returned
    owner_results,          \* owner flow: the list returned, or that the call raised
    reload_call,            \* a reload_inventory call in progress: its locals
    request_call,           \* a check_stock_logic call in progress: its locals
    published,              \* every inventory file a reload has read and assigned
    phase                   \* "idle", or how the last call ended: "responded", "raised", "reloaded"

configVars == <<INGREDIENT_THRESHOLDS>>
inventoryVars == <<inventory_levels, inventory_csv>>
patronVars == <<candidates, checked, results>>
rankVars == <<rank_items, rank_output>>
statusVars == <<status_answer, threshold_seen>>
ownerVars == <<owner_backend, owner_results>>
callVars == <<reload_call, request_call, published>>

vars == <<configVars, inventoryVars, patronVars, rankVars, statusVars, ownerVars,
          callVars, phase>>

----------------------------------------------------------------------------
(* Values *)

None == "None"
NaN == "NaN"

DEFAULT_LOW_THRESHOLD == 15

\* dict.get(key, default).  A NaN key is never found: the keys of the tables
\* are strings read from CSV files.
Get(d, key, default) == IF key \in DOMAIN d THEN d[key] ELSE default

\* The dict after d.get(key, default): get leaves it as it was.
\* DictAfterGet_SetDefault is d.setdefault(key, default), which stores the
\* default under a key the dict did not have.
DictAfterGet_SetDefault(d, key, default) ==
    [k \in DOMAIN d \cup {key} |-> IF k \in DOMAIN d THEN d[k] ELSE default]

DictAfterGet(d, key, default) == d

\* Python's == on the values a trigger can take: NaN is unequal to itself.
\* PyEq that takes the default trigger General for no name at all, equal to
\* nothing.
PyEq_SkipGeneral(a, b) == a = b /\ a # NaN /\ a # "General"

PyEq(a, b) == a = b /\ a # NaN

\* f"{x}"
Str(x) == x

----------------------------------------------------------------------------
(* InventoryManager: the read side *)

\* get_quantity with the low threshold as the quantity of an unknown name.
get_quantity_DefaultStocked(levels, ingredient_name) ==
    Get(levels, ingredient_name, DEFAULT_LOW_THRESHOLD)

get_quantity(levels, ingredient_name) == Get(levels, ingredient_name, 0)

get_threshold(ingredient_name) ==
    Get(INGREDIENT_THRESHOLDS, ingredient_name, DEFAULT_LOW_THRESHOLD)

\* is_low with <= for <: an ingredient at its threshold counts as low.
is_low_Inclusive(levels, ingredient_name) ==
    get_quantity(levels, ingredient_name) <= get_threshold(ingredient_name)

is_low(levels, ingredient_name) ==
    get_quantity(levels, ingredient_name) < get_threshold(ingredient_name)

is_out(levels, ingredient_name) == get_quantity(levels, ingredient_name) <= 0

----------------------------------------------------------------------------
(* InventoryManager.reload_inventory *)

\* inventory_lots.csv as a reload finds it: missing, unreadable, or a header
\* line and rows.  A row is what csv.DictReader yields: a dict from header to
\* cell, the cell of a field the line does not have being None.
MissingCsv == [kind |-> "missing"]
UnreadableCsv == [kind |-> "unreadable"]   \* open or the header read raises (an empty file too)
UnreadCsv == [kind |-> "unread"]
Csv(headers, rows) == [kind |-> "csv", headers |-> headers, rows |-> rows]

\* h.lower().replace(" ", "").replace("_", "")
NormalizeHeader(h) ==
    CASE h = "IngredientName" -> "ingredientname"
      [] h = "Current Quantity" -> "currentquantity"
      [] h = "Expiration_Date" -> "expirationdate"
      [] h = "Ingredient" -> "ingredient"
      [] h = "Qty" -> "qty"
      [] h = "LotID" -> "lotid"
      [] h = "Category" -> "category"
      [] h = "CurrentQuantity" -> "currentquantity"
      [] h = "DefaultUnit" -> "defaultunit"
      [] h = "ExpirationDate" -> "expirationdate"

NameHeaders == {"ingredientname", "ingredient_name", "ingredientid", "name"}
QuantityHeaders == {"currentquantity", "current_quantity", "quantity"}
ExpirationHeaders == {"expirationdate", "expiration_date", "expiry", "expdate"}

\* next((h for h in headers if normalised h in accepted), None)
RECURSIVE FirstHeader(_, _, _)
FirstHeader(headers, i, accepted) ==
    IF i > Len(headers) THEN None
    ELSE IF NormalizeHeader(headers[i]) \in accepted THEN headers[i]
    ELSE FirstHeader(headers, i + 1, accepted)

\* str.strip() on the texts of the files: blanks at both ends are dropped, a
\* blank text becomes empty.
Strip(text) == IF text = " Beef " THEN "Beef" ELSE IF text = " " THEN "" ELSE text

\* float(text): the cells that are numbers; any other string raises ValueError.
IsFloat(text) == text \in {"5", "10"}
Float(text) == IF text = "5" THEN 5 ELSE 10

\* datetime.strptime(text, "%m/%d/%Y") as a day number; any other string
\* raises ValueError.  Today is datetime.now() truncated to midnight.
IsDate(text) == text \in {"10/30/2026", "10/31/2026", "11/01/2026"}
DayOf(text) == IF text = "10/30/2026" THEN 30 ELSE IF text = "10/31/2026" THEN 31 ELSE 32
Today == 31

\* One pass of the loop body, lines 105-127, over a row: the totals after it,
\* and whether the loop goes on.  A None cell raises AttributeError
\* (None.strip(), lines 105 and 110) or TypeError (float(None), line 124),
\* which the handler of line 128 catches: the loop ends there.
ReadRow(row, name_col, qty_col, exp_col, totals) ==
    LET name == Strip(row[name_col]) IN
    IF row[name_col] = None THEN [totals |-> totals, go |-> FALSE]
    ELSE IF exp_col # None /\ row[exp_col] = None THEN [totals |-> totals, go |-> FALSE]
    ELSE IF /\ exp_col # None
            /\ IsDate(Strip(row[exp_col]))
            /\ DayOf(Strip(row[exp_col])) < Today
         THEN [totals |-> totals, go |-> TRUE]
    ELSE IF row[qty_col] = None THEN [totals |-> totals, go |-> FALSE]
    ELSE IF ~IsFloat(row[qty_col]) THEN [totals |-> totals, go |-> TRUE]
    ELSE [totals |-> [n \in DOMAIN totals \cup {name} |->
                        IF n = name THEN Get(totals, name, 0) + Float(row[qty_col])
                        ELSE totals[n]],
          go |-> TRUE]

\* The loop of lines 104-127 from row i on; the value is totals when it ends.
RECURSIVE ReadRows(_, _, _, _, _, _)
ReadRows(rows, i, name_col, qty_col, exp_col, totals) ==
    IF i > Len(rows) THEN totals
    ELSE LET step == ReadRow(rows[i], name_col, qty_col, exp_col, totals) IN
         IF step.go
         THEN ReadRows(rows, i + 1, name_col, qty_col, exp_col, step.totals)
         ELSE step.totals

\* reload_inventory, line 83: totals = self.inventory_levels, so that the rows
\* of the file are added to the entries of the live map.
NewTotals_InPlace(levels) == levels

\* reload_inventory, line 83: totals = {}, a new map that the rows fill.
NewTotals(levels) == <<>>

\* reload_inventory: the value of self.inventory_levels when it returns.
reload_inventory(levels, csv) ==
    IF csv.kind = "missing" THEN levels
    ELSE IF csv.kind = "unreadable" THEN <<>>
    ELSE LET name_col == FirstHeader(csv.headers, 1, NameHeaders)
             qty_col == FirstHeader(csv.headers, 1, QuantityHeaders)
             exp_col == FirstHeader(csv.headers, 1, ExpirationHeaders)
         IN  IF name_col = None \/ qty_col = None THEN levels
             ELSE ReadRows(csv.rows, 1, name_col, qty_col, exp_col, NewTotals(levels))

----------------------------------------------------------------------------
(* Patron search *)

\* The recipe table (Recipe_Components): the ingredients a menu item is made
\* of.  api.py never reads it; a candidate carries only its substitution rules.
Recipe(id) ==
    IF id = "m1" THEN {"Beef"} ELSE IF id = "m2" THEN {"Lettuce"} ELSE {}

\* One entry of menu_collection.query's result, as find_menu_candidates reads it.
BackendEntry(id, distance, subs_list) ==
    [id |-> id, name |-> id, document |-> id, price |-> 1,
     distance |-> distance, suggested_substitutions |-> subs_list]

\* find_menu_candidates: one item per backend entry, in the backend's order.
MenuItem(e) ==
    [id |-> e.id,
     name |-> e.name,
     description |-> e.document,
     price |-> e.price,
     score |-> e.distance,
     suggested_substitutions |-> e.suggested_substitutions,
     substitution |-> <<>>,
     availability_status |-> "In Stock"]

find_menu_candidates(backend) == [i \in 1..Len(backend) |-> MenuItem(backend[i])]

\* ScanTriggers without the break of line 252: the scan goes on after an
\* out-of-stock trigger, so a later low-stock trigger replaces it.
RECURSIVE ScanTriggers_NoBreak(_, _, _, _, _)
ScanTriggers_NoBreak(levels, subs_list, i, trigger_status, active_trigger_name) ==
    IF i > Len(subs_list) THEN <<trigger_status, active_trigger_name>>
    ELSE LET trigger == Get(subs_list[i], "trigger_ingredient", None) IN
         IF is_out(levels, trigger)
         THEN ScanTriggers_NoBreak(levels, subs_list, i + 1, "Out of Stock", trigger)
         ELSE IF is_low(levels, trigger)
              THEN ScanTriggers_NoBreak(levels, subs_list, i + 1, "Low Stock", trigger)
              ELSE ScanTriggers_NoBreak(levels, subs_list, i + 1, trigger_status,
                                        active_trigger_name)

\* check_stock_logic, step 1: the scan for the critical status.  The result is
\* <<trigger_status, active_trigger_name>>.
RECURSIVE ScanTriggers(_, _, _, _, _)
ScanTriggers(levels, subs_list, i, trigger_status, active_trigger_name) ==
    IF i > Len(subs_list) THEN <<trigger_status, active_trigger_name>>
    ELSE LET trigger == Get(subs_list[i], "trigger_ingredient", None) IN
         IF is_out(levels, trigger) THEN <<"Out of Stock", trigger>>
         ELSE IF is_low(levels, trigger)
              THEN ScanTriggers(levels, subs_list, i + 1, "Low Stock", trigger)
              ELSE ScanTriggers(levels, subs_list, i + 1, trigger_status,
                                active_trigger_name)

\* FindSubstitute taking the last matching rule instead of the first.
RECURSIVE FindSubstitute_Last(_, _, _)
FindSubstitute_Last(subs_list, i, active_trigger_name) ==
    IF i > Len(subs_list) THEN 0
    ELSE LET later == FindSubstitute_Last(subs_list, i + 1, active_trigger_name) IN
         IF later # 0 THEN later
         ELSE IF PyEq(Get(subs_list[i], "trigger_ingredient", None), active_trigger_name)
              THEN i
              ELSE 0

\* check_stock_logic, step 3: the index of the first rule whose trigger equals
\* the active trigger name, 0 when there is none.
RECURSIVE FindSubstitute(_, _, _)
FindSubstitute(subs_list, i, active_trigger_name) ==
    IF i > Len(subs_list) THEN 0
    ELSE IF PyEq(Get(subs_list[i], "trigger_ingredient", None), active_trigger_name)
         THEN i
         ELSE FindSubstitute(subs_list, i + 1, active_trigger_name)

\* What stands for a call that raises pydantic's ValidationError.
ValidationError == [error |-> "ValidationError"]
IsError(value) == "error" \in DOMAIN value

\* SubstitutionSuggestion, lines 188-191 and 268-272: original_item,
\* suggested_item and reason are declared str; the constructor raises when the
\* item has no name or the rule's rag_justification is null (the default of
\* .get is used only when the key is absent).
SubstitutionSuggestion(item, sub) ==
    LET reason == Get(sub, "rag_justification", "Better availability") IN
    IF item.name = None \/ reason = None THEN ValidationError
    ELSE [original_item |-> item.name,
          suggested_item |-> Str(Get(sub, "suggest_item_name", None)),
          reason |-> reason]

\* check_stock_logic without the return of line 275: the suggestion is
\* attached and line 278 then overwrites the status.
check_stock_logic_FallThrough(levels, item) ==
    LET subs_list == item.suggested_substitutions
        scan == ScanTriggers(levels, subs_list, 1, "In Stock", None)
        k == FindSubstitute(subs_list, 1, scan[2])
    IN  IF scan[1] = "In Stock" THEN item
        ELSE IF k # 0
             THEN IF IsError(SubstitutionSuggestion(item, subs_list[k]))
                  THEN ValidationError
                  ELSE [item EXCEPT
                          !.substitution = <<SubstitutionSuggestion(item, subs_list[k])>>,
                          !.availability_status = scan[1]]
             ELSE [item EXCEPT !.availability_status = scan[1]]

\* check_stock_logic, lines 240-279: the item after the call, or the
\* ValidationError that line 268 raises.
check_stock_logic(levels, item) ==
    LET subs_list == item.suggested_substitutions
        scan == ScanTriggers(levels, subs_list, 1, "In Stock", None)
        trigger_status == scan[1]
        active_trigger_name == scan[2]
        k == FindSubstitute(subs_list, 1, active_trigger_name)
    IN  IF trigger_status = "In Stock" THEN item
        ELSE IF k # 0
             THEN IF IsError(SubstitutionSuggestion(item, subs_list[k]))
                  THEN ValidationError
                  ELSE [item EXCEPT
                          !.substitution = <<SubstitutionSuggestion(item, subs_list[k])>>,
                          !.availability_status = "Substituted"]
             ELSE [item EXCEPT !.availability_status = trigger_status]

\* What the calls of check_stock_logic leave in the two tables they read:
\* state == [levels, thresholds].  is_out reads the snapshot (line 145); when
\* the trigger is not out, is_low reads the snapshot and the thresholds (line
\* 142); the scan ends at the first Out trigger.
RECURSIVE TablesAfterScan(_, _, _)
TablesAfterScan(state, subs_list, i) ==
    IF i > Len(subs_list) THEN state
    ELSE LET trigger == Get(subs_list[i], "trigger_ingredient", None)
             read == DictAfterGet(state.levels, trigger, 0)
         IN  IF is_out(state.levels, trigger)
             THEN [state EXCEPT !.levels = read]
             ELSE TablesAfterScan(
                    [levels |-> DictAfterGet(read, trigger, 0),
                     thresholds |-> DictAfterGet(state.thresholds, trigger,
                                                 DEFAULT_LOW_THRESHOLD)],
                    subs_list, i + 1)

\* The same over the candidates of one patron_search, line 376, up to the
\* candidate whose check raises.
RECURSIVE TablesAfterChecks(_, _, _)
TablesAfterChecks(state, cands, i) ==
    IF i > Len(cands) THEN state
    ELSE LET after == TablesAfterScan(state, cands[i].suggested_substitutions, 1) IN
         IF IsError(check_stock_logic(state.levels, cands[i])) THEN after
         ELSE TablesAfterChecks(after, cands, i + 1)

\* rank_results: sorted() by (status priority, score); sorted() is stable.
status_priority(status) ==
    IF status = "In Stock" THEN 0
    ELSE IF status = "Substituted" THEN 1
    ELSE IF status = "Low Stock" THEN 2
    ELSE IF status = "Out of Stock" THEN 3
    ELSE 99

sort_key(item) == <<status_priority(item.availability_status), item.score>>

\* Tuple comparison a < b of two sort keys.
KeyLess(a, b) == a[1] < b[1] \/ (a[1] = b[1] /\ a[2] < b[2])

\* InsertSorted placing x before the elements of equal key: an unstable sort.
RECURSIVE InsertSorted_Unstable(_, _)
InsertSorted_Unstable(x, s) ==
    IF s = <<>> THEN <<x>>
    ELSE IF ~KeyLess(sort_key(Head(s)), sort_key(x))
         THEN <<x>> \o s
         ELSE <<Head(s)>> \o InsertSorted_Unstable(x, Tail(s))

\* Stable insertion: x goes after every element whose key is not greater.
RECURSIVE InsertSorted(_, _)
InsertSorted(x, s) ==
    IF s = <<>> THEN <<x>>
    ELSE IF KeyLess(sort_key(x), sort_key(Head(s)))
         THEN <<x>> \o s
         ELSE <<Head(s)>> \o InsertSorted(x, Tail(s))

RECURSIVE SortFrom(_, _, _)
SortFrom(items, i, acc) ==
    IF i > Len(items) THEN acc
    ELSE SortFrom(items, i + 1, InsertSorted(items[i], acc))

rank_results(items) == SortFrom(items, 1, <<>>)

\* available_candidates without the filter.
available_candidates_Unfiltered(chk) == chk

\* patron_search, lines 379-382
available_candidates(chk) ==
    SelectSeq(chk, LAMBDA item : item.availability_status # "Out of Stock")

MenuItemResult(item) ==
    [id |-> item.id,
     name |-> item.name,
     description |-> item.description,
     price |-> item.price,
     score |-> item.score,
     substitution |-> item.substitution,
     availability_status |-> item.availability_status]

\* patron_search, line 376: the list comprehension over the candidates.
Checked(levels, cands) ==
    [i \in 1..Len(cands) |-> check_stock_logic(levels, cands[i])]

\* A check_stock_logic call of line 376 raises; nothing in patron_search
\* catches it.
Raised(chk) == \E i \in DOMAIN chk : IsError(chk[i])

\* patron_search, lines 372-397: the "results" list of the response, or the
\* ValidationError raised.
patron_search(levels, cands) ==
    IF Raised(Checked(levels, cands)) THEN ValidationError
    ELSE LET ranked == rank_results(available_candidates(Checked(levels, cands)))
         IN  [i \in 1..Len(ranked) |-> MenuItemResult(ranked[i])]

----------------------------------------------------------------------------
(* Owner search and full listing *)

\* Lines 313-317 and 355-359.
OwnerStatus(name, qty) ==
    IF qty <= 0 THEN "Out"
    ELSE IF qty < get_threshold(name) THEN "Low"
    ELSE "High"

InventorySearchResult(meta, name, qty, score) ==
    [ingredient_name |-> name,
     category |-> Get(meta, "category", "General"),
     current_quantity |-> qty,
     unit |-> Get(meta, "unit", "units"),
     score |-> score,
     status |-> OwnerStatus(name, qty)]

\* The loops of lines 304-326 and 346-368 from entry i on.  use_distance tells
\* the score: the entry's distance (owner search) or 1.0 (full listing).
RECURSIVE OwnerScan(_, _, _, _, _)
OwnerScan(entries, i, seen_ingredients, use_distance, output) ==
    IF i > Len(entries) THEN output
    ELSE LET meta == entries[i].meta
             name == Get(meta, "ingredient_name", None)
             qty == Get(meta, "current_quantity", 0)
             score == IF use_distance THEN entries[i].distance ELSE 1
         IN  IF name \in seen_ingredients
             THEN OwnerScan(entries, i + 1, seen_ingredients, use_distance, output)
             ELSE OwnerScan(entries, i + 1, seen_ingredients \cup {name}, use_distance,
                            Append(output, InventorySearchResult(meta, name, qty, score)))

\* InventorySearchResult declares ingredient_name: str; building one with None
\* raises a validation error, which nothing in the endpoint catches.
OwnerCall(entries, use_distance) ==
    LET output == OwnerScan(entries, 1, {}, use_distance, <<>>) IN
    IF \E i \in DOMAIN output : output[i].ingredient_name = None
    THEN [raised |-> TRUE, results |-> <<>>]
    ELSE [raised |-> FALSE, results |-> output]

\* What the loops of lines 304-326 and 346-368 leave in the threshold table:
\* get_threshold is called for every new name, the last time for the name
\* whose result raises.
RECURSIVE ThresholdsAfterOwner(_, _, _, _)
ThresholdsAfterOwner(thresholds, entries, i, seen_ingredients) ==
    IF i > Len(entries) THEN thresholds
    ELSE LET name == Get(entries[i].meta, "ingredient_name", None)
             read == DictAfterGet(thresholds, name, DEFAULT_LOW_THRESHOLD)
         IN  IF name \in seen_ingredients
             THEN ThresholdsAfterOwner(thresholds, entries, i + 1, seen_ingredients)
             ELSE IF name = None THEN read
             ELSE ThresholdsAfterOwner(read, entries, i + 1, seen_ingredients \cup {name})

find_inventory_candidates(entries) == OwnerCall(entries, TRUE)

get_inventory(entries) == OwnerCall(entries, FALSE)

----------------------------------------------------------------------------
(* Inputs *)

MaxCandidates == 2      \* backend entries per patron query
MaxPatronRules == 1     \* rules per menu item in a patron query
MaxRules == 3           \* rules of the menu item given to check_stock_logic alone
MaxItems == 3           \* items given to rank_results alone

Ingredients == {"Beef", "Lettuce"}
\* The Category cell of a main.csv row: an ingredient, Tofu (never tracked), or
\* empty.
Categories == Ingredients \cup {"Tofu", ""}
\* Stands for a rule triggered by Beef whose rag_justification is null.
NullJustified == "rag_justification: null"

\* What stands for a stored rule: the Category of the row the menu pipeline
\* wrote it from, or, in a menu.json written otherwise, a NaN trigger, no
\* trigger_ingredient key at all (None), or a null justification.
Triggers == Categories \cup {NaN, None, NullJustified}
PatronTriggers == Ingredients \cup {NaN}
Levels == {0, 10, 20}
Distances == {1, 2}
Statuses == {"In Stock", "Substituted", "Low Stock", "Out of Stock"}

\* The substitute named in row k of main.csv.
SubName(k) == IF k = 1 THEN "Cabbage Slaw" ELSE IF k = 2 THEN "Veggie Patty"
              ELSE IF k = 3 THEN "Side Salad" ELSE "Soup"

\* get_col, lines 43-49 of data_pipeline_generate_menu_json.py: the first of
\* the candidate columns the row has with a cell that is neither empty nor
\* None (the cell of a field a short line lacks), else the default.
RECURSIVE GetColFrom(_, _, _, _)
GetColFrom(row, cols, i, default) ==
    IF i > Len(cols) THEN default
    ELSE IF cols[i] \in DOMAIN row /\ row[cols[i]] \notin {"", None} THEN row[cols[i]]
    ELSE GetColFrom(row, cols, i + 1, default)

get_col(row, cols, default) == GetColFrom(row, cols, 1, default)

\* sub_entry, lines 178-183: every rule the pipeline writes has the four keys;
\* an empty Category gives the trigger General, a row without justification
\* the empty text.
sub_entry(row, sub_name) ==
    [trigger_ingredient |-> get_col(row, <<"Category">>, "General"),
     suggest_item_id |-> get_col(row, <<"Substitute_ID", "SubstituteID">>, ""),
     suggest_item_name |-> sub_name,
     rag_justification |->
         get_col(row, <<"RAG_Justification", "Justification", "RAG Justification">>, "")]

\* add_substitution, lines 173-187: the rules of an item after the row.
add_substitution(row, subs_list) ==
    LET sub_name ==
            Strip(get_col(row, <<"SubstituteName", "Substitute_ItemName", "Substitute Name">>, ""))
    IN  IF /\ sub_name # ""
           /\ \A j \in DOMAIN subs_list : subs_list[j].suggest_item_name # sub_name
        THEN Append(subs_list, sub_entry(row, sub_name))
        ELSE subs_list

\* Row k of main.csv for a menu item, as load_csv_data keeps it: only the
\* first line has a justification, the others are short lines, whose
\* RAG_Justification cell csv.DictReader sets to None.
MainRow(k, category) ==
    [Category |-> category,
     SubstituteName |-> SubName(k),
     RAG_Justification |-> IF k = 1 THEN "similar crunch" ELSE None]

\* A rule of a menu.json that add_substitution did not write (ingest_data.py
\* stores whatever list the file holds, lines 40-57), as json.loads returns it
\* at api.py line 225: the trigger is a text or a NaN, or there is no
\* trigger_ingredient key (trigger = None); the justification is null, or
\* there is no rag_justification key.
MalformedRule(k, trigger, null_justification) ==
    [key \in ({"suggest_item_name"}
                \cup (IF trigger = None THEN {} ELSE {"trigger_ingredient"})
                \cup (IF null_justification THEN {"rag_justification"} ELSE {})) |->
        IF key = "suggest_item_name" THEN SubName(k)
        ELSE IF key = "trigger_ingredient" THEN trigger
        ELSE None]

\* The stored rules of a menu item whose k-th rule is the one ts[k] stands for.
RECURSIVE StoredRules(_, _, _)
StoredRules(ts, k, subs_list) ==
    IF k > Len(ts) THEN subs_list
    ELSE IF ts[k] \in {NaN, None}
         THEN StoredRules(ts, k + 1, Append(subs_list, MalformedRule(k, ts[k], FALSE)))
         ELSE IF ts[k] = NullJustified
         THEN StoredRules(ts, k + 1, Append(subs_list, MalformedRule(k, "Beef", TRUE)))
         ELSE StoredRules(ts, k + 1, add_substitution(MainRow(k, ts[k]), subs_list))

RuleLists(n, triggers) ==
    UNION {{StoredRules(ts, 1, <<>>) : ts \in [1..m -> triggers]} : m \in 0..n}

MenuId(i) == IF i = 1 THEN "m1" ELSE IF i = 2 THEN "m2"
             ELSE IF i = 3 THEN "m3" ELSE "m4"

\* What menu_collection.query returns: distinct ids, distances ascending.
Ascending(ds) == \A i \in DOMAIN ds : \A j \in DOMAIN ds : i <= j => ds[i] <= ds[j]

BackendResult(m, ds, rs) == [i \in 1..m |-> BackendEntry(MenuId(i), ds[i], rs[i])]

\* The snapshots a reload can leave.
Snapshots == [Ingredients -> Levels]

ThresholdTables == {<<>>, [x \in {"Beef"} |-> 10]}

----------------------------------------------------------------------------
(* The patron service: the snapshot and the thresholds loaded at startup,   *)
(* then one patron_search per request.                                     *)

PatronIdle == candidates = <<>> /\ checked = <<>> /\ results = <<>>
RankIdle == rank_items = <<>> /\ rank_output = <<>>
StatusIdle == status_answer = <<>> /\ threshold_seen = <<>>
OwnerIdle == owner_backend = <<>> /\ owner_results = <<>>
IdleCall == [pc |-> "idle"]
CallsIdle ==
    /\ reload_call = IdleCall
    /\ request_call = IdleCall
    /\ published = {}
NoCall == PatronIdle /\ RankIdle /\ StatusIdle /\ OwnerIdle /\ CallsIdle /\ phase = "idle"

Init ==
    /\ INGREDIENT_THRESHOLDS \in ThresholdTables
    /\ inventory_levels \in Snapshots
    /\ inventory_csv = UnreadCsv
    /\ NoCall

PatronSearchOver(maxCandidates, maxRules, triggers) ==
    /\ phase = "idle"
    /\ \E m \in 0..maxCandidates :
         \E ds \in [1..m -> Distances], rs \in [1..m -> RuleLists(maxRules, triggers)] :
           /\ Ascending(ds)
           /\ LET cands == find_menu_candidates(BackendResult(m, ds, rs)) IN
                /\ candidates' = cands
                /\ IF Raised(Checked(inventory_levels, cands))
                   THEN /\ checked' = <<>>
                        /\ results' = <<>>
                        /\ phase' = "raised"
                   ELSE /\ checked' = Checked(inventory_levels, cands)
                        /\ results' = patron_search(inventory_levels, cands)
                        /\ phase' = "responded"
                /\ LET after == TablesAfterChecks([levels |-> inventory_levels,
                                                   thresholds |-> INGREDIENT_THRESHOLDS],
                                                  cands, 1)
                   IN  /\ inventory_levels' = after.levels
                       /\ INGREDIENT_THRESHOLDS' = after.thresholds
    /\ UNCHANGED <<inventory_csv, rankVars, statusVars, ownerVars, callVars>>

PatronSearch == PatronSearchOver(MaxCandidates, MaxPatronRules, PatronTriggers)

\* The call returns or has raised; the per-call values are discarded.
Respond ==
    /\ phase \in {"responded", "raised"}
    /\ phase' = "idle"
    /\ candidates' = <<>>
    /\ checked' = <<>>
    /\ results' = <<>>
    /\ rank_items' = <<>>
    /\ rank_output' = <<>>
    /\ status_answer' = <<>>
    /\ owner_backend' = <<>>
    /\ owner_results' = <<>>
    /\ UNCHANGED <<configVars, inventoryVars, threshold_seen, callVars>>

Next == PatronSearch \/ Respond

Spec == Init /\ [][Next]_vars

\* The resolver on its own: a query whose backend result is one menu item,
\* with a longer rule list.
ResolveOne == PatronSearchOver(1, MaxRules, Triggers)

NextResolver == ResolveOne \/ Respond

SpecResolver == Init /\ [][NextResolver]_vars

\* The patron service over the menu the pipeline stores: every rule is one
\* add_substitution wrote, its trigger the row's Category, or General when the
\* row has none.
PipelineSearch == PatronSearchOver(MaxCandidates, MaxPatronRules, Ingredients \cup {""})

NextPipeline == PipelineSearch \/ Respond

SpecPipeline == Init /\ [][NextPipeline]_vars

\* The ranker on its own, over any list of checked items.
RankInputs(n) ==
    UNION {{[i \in 1..m |-> [id |-> MenuId(i), availability_status |-> st[i],
                             score |-> sc[i]]] :
              st \in [1..m -> Statuses], sc \in [1..m -> Distances]} : m \in 0..n}

InitRank ==
    /\ INGREDIENT_THRESHOLDS = <<>>
    /\ inventory_levels = <<>>
    /\ inventory_csv = UnreadCsv
    /\ NoCall

RankResults ==
    /\ phase = "idle"
    /\ \E its \in RankInputs(MaxItems) :
         /\ rank_items' = its
         /\ rank_output' = rank_results(its)
    /\ phase' = "responded"
    /\ UNCHANGED <<configVars, inventoryVars, patronVars, statusVars, ownerVars, callVars>>

NextRank == RankResults \/ Respond

SpecRank == InitRank /\ [][NextRank]_vars

----------------------------------------------------------------------------
(* The inventory manager on its own: construction, then reloads over what   *)
(* the inventory file holds at the time.                                   *)

MaxRows == 2            \* rows of the inventory file

NameCells == {"Beef", " Beef ", "Lettuce"}
QuantityCells == {"5", "abc", None}
ExpirationCells == {"10/30/2026", "10/31/2026", "11/01/2026", "soon", None}

FullHeaders == <<"IngredientName", "Current Quantity", "Expiration_Date">>
ShortHeaders == <<"IngredientName", "Current Quantity">>
SwappedHeaders == <<"Current Quantity", "IngredientName">>
OtherHeaders == <<"Ingredient", "Qty">>

CellsOf(h) ==
    IF h \in {"IngredientName", "Ingredient"} THEN NameCells
    ELSE IF h \in {"Current Quantity", "Qty"} THEN QuantityCells
    ELSE ExpirationCells

\* The rows of a file with these headers.  csv.DictReader fills the missing
\* trailing fields of a line with None: the first cell is never None, any
\* later cell can be, and a None cell is followed by None cells.
RowsOf(headers) ==
    {row \in [{headers[i] : i \in DOMAIN headers} -> NameCells \cup QuantityCells \cup ExpirationCells] :
        /\ row[headers[1]] # None
        /\ \A i \in DOMAIN headers :
             row[headers[i]] \in CellsOf(headers[i]) \cup (IF i > 1 THEN {None} ELSE {})
        /\ \A i \in DOMAIN headers : \A j \in DOMAIN headers :
             (i < j /\ row[headers[i]] = None) => row[headers[j]] = None}

\* The files without rows to read.
BrokenCsvFiles == {MissingCsv, UnreadableCsv, Csv(OtherHeaders, <<>>)}

\* InventoryManager.__init__ at line 75: inventory_levels = {}.  The reload of
\* line 76 is the first ReloadInventory.
InitInventory ==
    /\ INGREDIENT_THRESHOLDS = <<>>
    /\ inventory_csv = UnreadCsv
    /\ inventory_levels = <<>>
    /\ NoCall

ReloadFrom(csv) ==
    /\ inventory_csv' = csv
    /\ inventory_levels' = reload_inventory(inventory_levels, csv)

ReloadInventory ==
    /\ phase = "idle"
    /\ \/ \E csv \in BrokenCsvFiles : ReloadFrom(csv)
       \/ \E h \in {FullHeaders, ShortHeaders, SwappedHeaders}, m \in 0..MaxRows :
            \E rows \in [1..m -> RowsOf(h)] : ReloadFrom(Csv(h, rows))
    /\ phase' = "reloaded"
    /\ UNCHANGED <<configVars, patronVars, rankVars, statusVars, ownerVars, callVars>>

\* reload_inventory has returned; what it read is forgotten.
Reloaded ==
    /\ phase = "reloaded"
    /\ phase' = "idle"
    /\ inventory_csv' = UnreadCsv
    /\ UNCHANGED <<configVars, inventory_levels, patronVars, rankVars, statusVars, ownerVars,
                   callVars>>

NextInventory == ReloadInventory \/ Reloaded

SpecInventory == InitInventory /\ [][NextInventory]_vars

----------------------------------------------------------------------------
(* The read side of the inventory manager on its own: get_threshold, is_low *)
(* and is_out asked for a name, over a loaded snapshot and override table.  *)

AskedNames == Ingredients \cup {"Tofu", None}
StatusLevels == {-5, 0, 10, 15, 20}
StatusSnapshots == [Ingredients -> StatusLevels]

InitStatus ==
    /\ INGREDIENT_THRESHOLDS \in ThresholdTables
    /\ inventory_levels \in StatusSnapshots
    /\ inventory_csv = UnreadCsv
    /\ NoCall

StatusQuery ==
    /\ phase = "idle"
    /\ \E name \in AskedNames :
         /\ status_answer' = <<[ingredient_name |-> name,
                                threshold |-> get_threshold(name),
                                low |-> is_low(inventory_levels, name),
                                out |-> is_out(inventory_levels, name)]>>
         /\ threshold_seen' =
               [n \in DOMAIN threshold_seen \cup {name} |->
                   IF n = name
                   THEN Get(threshold_seen, name, {}) \cup {get_threshold(name)}
                   ELSE threshold_seen[n]]
    /\ phase' = "responded"
    /\ UNCHANGED <<configVars, inventoryVars, patronVars, rankVars, ownerVars, callVars>>

NextStatus == StatusQuery \/ Respond

SpecStatus == InitStatus /\ [][NextStatus]_vars

----------------------------------------------------------------------------
(* The owner flow: owner_substitute and get_inventory over what the         *)
(* inventory collection holds.                                             *)

MaxEntries == 2         \* entries the inventory collection returns

\* The metadata of an entry: with the keys api.py reads, with or without a
\* quantity, or with the keys ingest_inventory writes.
OwnerMetas ==
    {[ingredient_name |-> n, category |-> "Food", current_quantity |-> q, unit |-> "kg"] :
        n \in Ingredients, q \in Levels}
    \cup {[ingredient_name |-> "Beef", category |-> "Food", unit |-> "kg"]}
    \cup {[IngredientName |-> "Beef", Category |-> "Food", CurrentQuantity |-> 10,
           DefaultUnit |-> "kg", ExpirationDate |-> "10/31/2026"]}

OwnerEntries(m, metas, ds) == [i \in 1..m |-> [meta |-> metas[i], distance |-> ds[i]]]

\* What an owner endpoint leaves: which endpoint ran, and its outcome.
OwnerReturn(endpoint, outcome) ==
    [endpoint |-> endpoint, raised |-> outcome.raised, results |-> outcome.results]

OwnerSubstitute ==
    /\ phase = "idle"
    /\ \E m \in 0..MaxEntries :
         \E metas \in [1..m -> OwnerMetas], ds \in [1..m -> Distances] :
           /\ Ascending(ds)
           /\ owner_backend' = OwnerEntries(m, metas, ds)
           /\ owner_results' =
                <<OwnerReturn("owner_substitute",
                              find_inventory_candidates(OwnerEntries(m, metas, ds)))>>
           /\ INGREDIENT_THRESHOLDS' =
                ThresholdsAfterOwner(INGREDIENT_THRESHOLDS, OwnerEntries(m, metas, ds), 1, {})
    /\ phase' = "responded"
    /\ UNCHANGED <<inventoryVars, patronVars, rankVars, statusVars, callVars>>

GetInventory ==
    /\ phase = "idle"
    /\ \E m \in 0..MaxEntries :
         \E metas \in [1..m -> OwnerMetas] :
           /\ owner_backend' = OwnerEntries(m, metas, [i \in 1..m |-> 0])
           /\ owner_results' =
                <<OwnerReturn("get_inventory",
                              get_inventory(OwnerEntries(m, metas, [i \in 1..m |-> 0])))>>
           /\ INGREDIENT_THRESHOLDS' =
                ThresholdsAfterOwner(INGREDIENT_THRESHOLDS,
                                     OwnerEntries(m, metas, [i \in 1..m |-> 0]), 1, {})
    /\ phase' = "responded"
    /\ UNCHANGED <<inventoryVars, patronVars, rankVars, statusVars, callVars>>

NextOwner == OwnerSubstitute \/ GetInventory \/ Respond

SpecOwner == Init /\ [][NextOwner]_vars

----------------------------------------------------------------------------
(* The full listing over the collection ingest_data.py builds: the service  *)
(* has loaded inventory_lots.csv, ingest_inventory has put one entry per    *)
(* lot of the same file into the inventory collection.                     *)

MaxLots == 3            \* lots of inventory_lots.csv

LotHeaders ==
    <<"LotID", "IngredientName", "Category", "CurrentQuantity", "DefaultUnit", "ExpirationDate">>

LotId(i) == IF i = 1 THEN "L1" ELSE IF i = 2 THEN "L2" ELSE IF i = 3 THEN "L3" ELSE "L4"

\* Lot i of the file: a row as csv.DictReader yields it.
LotRow(i, name, quantity) ==
    [h \in {LotHeaders[j] : j \in DOMAIN LotHeaders} |->
        CASE h = "LotID" -> LotId(i)
          [] h = "IngredientName" -> name
          [] h = "Category" -> "Food"
          [] h = "CurrentQuantity" -> quantity
          [] h = "DefaultUnit" -> "kg"
          [] h = "ExpirationDate" -> "11/01/2026"]

LotFile(m, names, quantities) ==
    Csv(LotHeaders, [i \in 1..m |-> LotRow(i, names[i], quantities[i])])

\* ingest_inventory, lines 92-108 of ingest_data.py: one entry per row, with
\* the metadata keys it writes; collection.get() returns them in this order.
ingest_inventory(rows) ==
    [i \in 1..Len(rows) |->
        [meta |-> [IngredientName |-> rows[i]["IngredientName"],
                   Category |-> rows[i]["Category"],
                   CurrentQuantity |-> Float(rows[i]["CurrentQuantity"]),
                   DefaultUnit |-> rows[i]["DefaultUnit"],
                   ExpirationDate |-> rows[i]["ExpirationDate"]],
         distance |-> 0]]

\* The service started over the file: the constructor's reload has read it.
InitListing ==
    /\ INGREDIENT_THRESHOLDS \in ThresholdTables
    /\ \E m \in 0..MaxLots :
         \E names \in [1..m -> Ingredients], quantities \in [1..m -> {"5", "10"}] :
           /\ inventory_csv = LotFile(m, names, quantities)
           /\ inventory_levels = reload_inventory(<<>>, LotFile(m, names, quantities))
    /\ NoCall

ListInventory ==
    /\ phase = "idle"
    /\ owner_backend' = ingest_inventory(inventory_csv.rows)
    /\ owner_results' =
          <<OwnerReturn("get_inventory", get_inventory(ingest_inventory(inventory_csv.rows)))>>
    /\ INGREDIENT_THRESHOLDS' =
          ThresholdsAfterOwner(INGREDIENT_THRESHOLDS, ingest_inventory(inventory_csv.rows), 1, {})
    /\ phase' = "responded"
    /\ UNCHANGED <<inventoryVars, patronVars, rankVars, statusVars, callVars>>

NextListing == ListInventory \/ Respond

SpecListing == InitListing /\ [][NextListing]_vars

----------------------------------------------------------------------------
(* The service as a whole: the inventory manager is constructed, then       *)
(* reloads and search requests follow one another in any order.            *)

InitService ==
    /\ INGREDIENT_THRESHOLDS \in ThresholdTables
    /\ inventory_csv = UnreadCsv
    /\ inventory_levels = <<>>
    /\ NoCall

NextService ==
    \/ ReloadInventory
    \/ Reloaded
    \/ PatronSearch
    \/ OwnerSubstitute
    \/ GetInventory
    \/ Respond

SpecService == InitService /\ [][NextService]_vars

----------------------------------------------------------------------------
(* Reloads and requests, call by call.  reload_inventory builds the local  *)
(* totals row by row and assigns it to inventory_levels at the end;         *)
(* check_stock_logic reads inventory_levels anew in every is_out and is_low *)
(* call.  The constructor runs reload_inventory before the application      *)
(* serves (api.py:76, 165) and the endpoints are coroutines without an      *)
(* await (api.py:372-407): a call that has started runs to its end before   *)
(* the next one starts.                                                     *)

MaxSwapRules == 2     \* rules of the menu item the request resolves

BeefRow == [h \in {"IngredientName", "Current Quantity"} |->
              IF h = "IngredientName" THEN "Beef" ELSE "5"]
LettuceRow == [h \in {"IngredientName", "Current Quantity"} |->
                 IF h = "IngredientName" THEN "Lettuce" ELSE "5"]

SwapCsvFiles ==
    {Csv(ShortHeaders, <<>>), Csv(ShortHeaders, <<BeefRow>>),
     Csv(ShortHeaders, <<LettuceRow>>), Csv(ShortHeaders, <<BeefRow, LettuceRow>>)}

InitSwap ==
    /\ INGREDIENT_THRESHOLDS = <<>>
    /\ inventory_levels = <<>>
    /\ inventory_csv = UnreadCsv
    /\ NoCall

\* reload_inventory, lines 83-99: totals = {}, the file is open and the
\* columns are found.
ReloadBegin ==
    /\ reload_call.pc = "idle"
    /\ request_call.pc = "idle"
    /\ \E csv \in SwapCsvFiles :
         /\ inventory_csv' = csv
         /\ reload_call' = [pc |-> "rows", rows |-> csv.rows, i |-> 1,
                            totals |-> NewTotals(inventory_levels)]
    /\ UNCHANGED <<configVars, inventory_levels, patronVars, rankVars, statusVars,
                   ownerVars, request_call, published, phase>>

\* reload_inventory, lines 104-127: one row into the local totals.
ReloadRow ==
    /\ reload_call.pc = "rows"
    /\ reload_call.i <= Len(reload_call.rows)
    /\ LET step == ReadRow(reload_call.rows[reload_call.i],
                           FirstHeader(ShortHeaders, 1, NameHeaders),
                           FirstHeader(ShortHeaders, 1, QuantityHeaders),
                           FirstHeader(ShortHeaders, 1, ExpirationHeaders),
                           reload_call.totals)
       IN  reload_call' =
             [reload_call EXCEPT
                !.totals = step.totals,
                !.i = IF step.go THEN reload_call.i + 1 ELSE Len(reload_call.rows) + 1]
    /\ UNCHANGED <<configVars, inventoryVars, patronVars, rankVars, statusVars, ownerVars,
                   request_call, published, phase>>

\* reload_inventory, line 131: self.inventory_levels = totals.
ReloadSwap ==
    /\ reload_call.pc = "rows"
    /\ reload_call.i > Len(reload_call.rows)
    /\ inventory_levels' = reload_call.totals
    /\ published' = published \cup {inventory_csv}
    /\ reload_call' = IdleCall
    /\ UNCHANGED <<configVars, inventory_csv, patronVars, rankVars, statusVars, ownerVars,
                   request_call, phase>>

\* check_stock_logic, lines 241-247: the scan starts.  A request is served
\* after the constructor's reload, and not while a reload is running.
RequestBegin ==
    /\ request_call.pc = "idle"
    /\ reload_call.pc = "idle"
    /\ published # {}
    /\ \E subs_list \in RuleLists(MaxSwapRules, Ingredients) :
         request_call' =
            [pc |-> IF subs_list = <<>> THEN "done" ELSE "is_out",
             subs_list |-> subs_list, i |-> 1,
             trigger_status |-> "In Stock", active_trigger_name |-> None,
             reads |-> {}]
    /\ UNCHANGED <<configVars, inventoryVars, patronVars, rankVars, statusVars, ownerVars,
                   reload_call, published, phase>>

\* check_stock_logic, line 249: is_out(trigger) reads inventory_levels.
RequestIsOut ==
    /\ request_call.pc = "is_out"
    /\ LET trigger == Get(request_call.subs_list[request_call.i],
                          "trigger_ingredient", None)
       IN  request_call' =
             IF is_out(inventory_levels, trigger)
             THEN [request_call EXCEPT
                     !.reads = @ \cup {inventory_levels},
                     !.trigger_status = "Out of Stock",
                     !.active_trigger_name = trigger,
                     !.pc = "done"]
             ELSE [request_call EXCEPT
                     !.reads = @ \cup {inventory_levels},
                     !.pc = "is_low"]
    /\ UNCHANGED <<configVars, inventoryVars, patronVars, rankVars, statusVars, ownerVars,
                   reload_call, published, phase>>

\* check_stock_logic, lines 253-255: is_low(trigger) reads inventory_levels.
RequestIsLow ==
    /\ request_call.pc = "is_low"
    /\ LET trigger == Get(request_call.subs_list[request_call.i],
                          "trigger_ingredient", None)
           last == request_call.i = Len(request_call.subs_list)
           low == is_low(inventory_levels, trigger)
       IN  request_call' =
             [request_call EXCEPT
                !.reads = @ \cup {inventory_levels},
                !.trigger_status = IF low THEN "Low Stock" ELSE @,
                !.active_trigger_name = IF low THEN trigger ELSE @,
                !.i = @ + 1,
                !.pc = IF last THEN "done" ELSE "is_out"]
    /\ UNCHANGED <<configVars, inventoryVars, patronVars, rankVars, statusVars, ownerVars,
                   reload_call, published, phase>>

\* check_stock_logic returns.
RequestEnd ==
    /\ request_call.pc = "done"
    /\ request_call' = IdleCall
    /\ UNCHANGED <<configVars, inventoryVars, patronVars, rankVars, statusVars, ownerVars,
                   reload_call, published, phase>>

NextSwap ==
    \/ ReloadBegin \/ ReloadRow \/ ReloadSwap
    \/ RequestBegin \/ RequestIsOut \/ RequestIsLow \/ RequestEnd

SpecSwap == InitSwap /\ [][NextSwap]_vars

----------------------------------------------------------------------------
(* Properties of the patron flow *)

\* The live state, stated from the snapshot and the override table.
LiveQuantity(name) ==
    IF name \in DOMAIN inventory_levels THEN inventory_levels[name] ELSE 0
LiveThreshold(name) ==
    IF name \in DOMAIN INGREDIENT_THRESHOLDS THEN INGREDIENT_THRESHOLDS[name] ELSE 15
LiveOut(name) == LiveQuantity(name) <= 0
LiveLow(name) == ~LiveOut(name) /\ LiveQuantity(name) < LiveThreshold(name)

TriggerOf(sub) == IF "trigger_ingredient" \in DOMAIN sub THEN sub.trigger_ingredient ELSE None

\* The rules of subs_list that are rules for the trigger value t, in stored order.
RulesFor(subs_list, t) ==
    {j \in DOMAIN subs_list : TriggerOf(subs_list[j]) = t /\ t # NaN}

Min(S) == CHOOSE x \in S : \A y \in S : x <= y

OutRules(subs_list) == {j \in DOMAIN subs_list : LiveOut(TriggerOf(subs_list[j]))}

ResultIds == {results[i].id : i \in DOMAIN results}

\* C1: the patron_search response holds no item whose availability is Out of
\* Stock, whatever the inventory snapshot, the candidates and their scores.
C1_NoOutInResponse ==
    phase = "responded" =>
        \A i \in DOMAIN results : results[i].availability_status # "Out of Stock"

\* A response to a query one of whose candidates resolved to Out of Stock,
\* while another candidate was returned.
C1_Witness ==
    /\ phase = "responded"
    /\ \E i \in DOMAIN checked : checked[i].availability_status = "Out of Stock"
    /\ results # <<>>

\* C2: a menu item made of an ingredient whose live quantity is 0, with no
\* substitution rule for that ingredient, is absent from the response.
C2_BlockedItemExcluded ==
    phase = "responded" =>
        \A i \in DOMAIN candidates :
            (\E g \in Recipe(candidates[i].id) :
                /\ LiveQuantity(g) = 0
                /\ RulesFor(candidates[i].suggested_substitutions, g) = {})
            => candidates[i].id \notin ResultIds

\* C3: when some trigger is Out, the outcome comes from the first Out trigger in
\* stored order: Out of Stock without a suggestion, or Substituted with the
\* suggestion of a rule for that trigger; never from a Low trigger.
C3_FirstOutTriggerDecides ==
    phase = "responded" =>
        \A i \in DOMAIN candidates :
            LET subs_list == candidates[i].suggested_substitutions
                out == OutRules(subs_list)
                t == TriggerOf(subs_list[Min(out)])
            IN  out # {} =>
                  \/ /\ checked[i].availability_status = "Out of Stock"
                     /\ checked[i].substitution = <<>>
                  \/ /\ checked[i].availability_status = "Substituted"
                     /\ checked[i].substitution # <<>>
                     /\ \E j \in RulesFor(subs_list, t) :
                          checked[i].substitution[1].suggested_item =
                              subs_list[j].suggest_item_name

\* A menu item whose first rule has a Low trigger and whose second rule has an
\* Out trigger, resolved with the second rule's suggestion.
C3_Witness ==
    /\ phase = "responded"
    /\ Len(candidates) = 1
    /\ Len(candidates[1].suggested_substitutions) >= 2
    /\ LiveLow(TriggerOf(candidates[1].suggested_substitutions[1]))
    /\ LiveOut(TriggerOf(candidates[1].suggested_substitutions[2]))
    /\ checked[1].availability_status = "Substituted"
    /\ checked[1].substitution[1].suggested_item = SubName(2)

\* The trigger values of subs_list that are Low or Out now.
Triggering(subs_list) ==
    {TriggerOf(subs_list[j]) : j \in
        {k \in DOMAIN subs_list : LiveOut(TriggerOf(subs_list[k]))
                                    \/ LiveLow(TriggerOf(subs_list[k]))}}

\* C4: when exactly one trigger ingredient is Low or Out and a rule exists for
\* it, the item is Substituted, with the suggested name and the justification
\* of the first rule in stored order for that ingredient.
C4_SubstitutionFromFirstRule ==
    phase = "responded" =>
        \A i \in DOMAIN candidates :
            LET subs_list == candidates[i].suggested_substitutions
                trig == Triggering(subs_list)
                t == CHOOSE x \in trig : TRUE
                first == subs_list[Min(RulesFor(subs_list, t))]
            IN  (Cardinality(trig) = 1 /\ RulesFor(subs_list, t) # {}) =>
                  /\ checked[i].availability_status = "Substituted"
                  /\ checked[i].substitution # <<>>
                  /\ checked[i].substitution[1].suggested_item = first.suggest_item_name
                  /\ checked[i].substitution[1].reason =
                        (IF "rag_justification" \in DOMAIN first
                         THEN first.rag_justification ELSE "Better availability")
                  /\ checked[i].substitution[1].original_item = candidates[i].name

\* Two rules for the one triggering ingredient, the second of them last in the
\* list: the suggestion is the first rule's.
C4_Witness ==
    /\ phase = "responded"
    /\ Len(candidates) = 1
    /\ LET subs_list == candidates[1].suggested_substitutions IN
         /\ Len(subs_list) = 3
         /\ Triggering(subs_list) = {"Lettuce"}
         /\ LiveLow("Lettuce")
         /\ RulesFor(subs_list, "Lettuce") = {2, 3}
         /\ checked[1].availability_status = "Substituted"
         /\ checked[1].substitution[1].suggested_item = SubName(2)
         /\ checked[1].substitution[1].reason = ""

\* C5: a checked candidate is Substituted exactly when it carries a suggestion,
\* and it is Out of Stock only when none of its rules is a rule for the
\* triggering ingredient.
C5_SubstitutedIffSuggestion ==
    phase = "responded" =>
        \A i \in DOMAIN checked :
            LET subs_list == candidates[i].suggested_substitutions
                out == OutRules(subs_list)
            IN  /\ checked[i].availability_status = "Substituted"
                      <=> checked[i].substitution # <<>>
                /\ checked[i].availability_status = "Out of Stock" =>
                      /\ out # {}
                      /\ RulesFor(subs_list, TriggerOf(subs_list[Min(out)])) = {}

\* A candidate left Out of Stock, without a suggestion.
C5_Witness ==
    /\ phase = "responded"
    /\ Len(checked) = 1
    /\ checked[1].availability_status = "Out of Stock"
    /\ checked[1].substitution = <<>>
    /\ Len(candidates[1].suggested_substitutions) >= 2

----------------------------------------------------------------------------
(* Properties of the ranker *)

Tier(status) ==
    CASE status = "In Stock" -> 0
      [] status = "Substituted" -> 1
      [] status = "Low Stock" -> 2
      [] status = "Out of Stock" -> 3

\* rank_items has distinct ids: the position an item had in the input.
InputPosition(item) == CHOOSE i \in DOMAIN rank_items : rank_items[i].id = item.id

TierScoreLeq(a, b) ==
    \/ Tier(a.availability_status) < Tier(b.availability_status)
    \/ /\ Tier(a.availability_status) = Tier(b.availability_status)
       /\ a.score <= b.score

SameTierScore(a, b) ==
    a.availability_status = b.availability_status /\ a.score = b.score

\* C6: rank_results returns a permutation of its input, sorted by tier and,
\* within a tier, by score ascending; items of equal tier and score keep the
\* relative order of the input.
C6_RankStableByTierThenScore ==
    phase = "responded" =>
        /\ Len(rank_output) = Len(rank_items)
        /\ {rank_output[i] : i \in DOMAIN rank_output}
             = {rank_items[i] : i \in DOMAIN rank_items}
        /\ \A i \in DOMAIN rank_output : \A j \in DOMAIN rank_output :
             i < j =>
               /\ TierScoreLeq(rank_output[i], rank_output[j])
               /\ SameTierScore(rank_output[i], rank_output[j]) =>
                    InputPosition(rank_output[i]) < InputPosition(rank_output[j])

\* An input that is out of order and holds two items of equal tier and score.
C6_Witness ==
    /\ phase = "responded"
    /\ Len(rank_items) = 3
    /\ rank_output # rank_items
    /\ \E i \in DOMAIN rank_output : \E j \in DOMAIN rank_output :
         i < j /\ SameTierScore(rank_output[i], rank_output[j])

----------------------------------------------------------------------------
(* Properties of the inventory manager *)

\* The rows of the file a reload has to count for the ingredient called name:
\* those with a numeric quantity that are not provably expired.
CountedRows(csv, name) ==
    {i \in DOMAIN csv.rows :
        LET row == csv.rows[i] IN
        /\ Strip(row["IngredientName"]) = name
        /\ row["Current Quantity"] \in {"5", "10"}
        /\ ~ (/\ "Expiration_Date" \in DOMAIN row
              /\ row["Expiration_Date"] \in {"10/30/2026"})}

RECURSIVE SumQuantities(_, _)
SumQuantities(csv, rowset) ==
    IF rowset = {} THEN 0
    ELSE LET i == CHOOSE x \in rowset : TRUE IN
         (IF csv.rows[i]["Current Quantity"] = "5" THEN 5 ELSE 10)
           + SumQuantities(csv, rowset \ {i})

HasNameAndQuantity(csv) ==
    csv.kind = "csv" /\ csv.headers \in {FullHeaders, ShortHeaders, SwappedHeaders}

\* C7: after a reload the quantity of every ingredient is the sum over the rows
\* of that name with a numeric quantity and no expiration date before today;
\* rows with a bad quantity or a bad date do not affect the other rows.
C7_ReloadSumsUnexpiredLots ==
    (phase = "reloaded" /\ HasNameAndQuantity(inventory_csv)) =>
        \A name \in {"Beef", "Lettuce"} :
            LiveQuantity(name) = SumQuantities(inventory_csv, CountedRows(inventory_csv, name))

\* C9: get_threshold returns the override of the name when one was loaded and
\* 15 otherwise, the same value at every call; is_low is quantity < threshold,
\* false at quantity = threshold; is_out is quantity <= 0.
C9_ThresholdAndStatus ==
    /\ \A name \in DOMAIN threshold_seen :
         threshold_seen[name] =
             {IF name \in DOMAIN INGREDIENT_THRESHOLDS
              THEN INGREDIENT_THRESHOLDS[name] ELSE 15}
    /\ status_answer # <<>> =>
         LET a == status_answer[1]
             quantity == LiveQuantity(a.ingredient_name)
         IN  /\ a.threshold = LiveThreshold(a.ingredient_name)
             /\ a.low <=> quantity < a.threshold
             /\ quantity = a.threshold => ~a.low
             /\ a.out <=> quantity <= 0

\* A second answer for an ingredient with an override whose quantity is
\* exactly its threshold.
C9_Witness ==
    /\ status_answer # <<>>
    /\ status_answer[1].ingredient_name = "Beef"
    /\ "Beef" \in DOMAIN INGREDIENT_THRESHOLDS
    /\ LiveQuantity("Beef") = INGREDIENT_THRESHOLDS["Beef"]
    /\ ~status_answer[1].low
    /\ ~status_answer[1].out
    /\ "Lettuce" \in DOMAIN threshold_seen
    /\ LiveQuantity("Lettuce") = 15

----------------------------------------------------------------------------
(* Properties of reloads and requests *)

\* The complete totals of an inventory file: for every name with a counted
\* row, the sum of the quantities of its counted rows.
CompleteTotals(csv) ==
    [name \in {n \in Ingredients : CountedRows(csv, n) # {}} |->
        SumQuantities(csv, CountedRows(csv, name))]

----------------------------------------------------------------------------
(* Properties of the owner flow *)

LiveStatus(name) ==
    IF LiveQuantity(name) <= 0 THEN "Out"
    ELSE IF LiveQuantity(name) < LiveThreshold(name) THEN "Low"
    ELSE "High"

\* C10: the status the owner flow attaches to an ingredient is the one its live
\* quantity in the snapshot gives: Out iff quantity <= 0, Low iff
\* 0 < quantity < threshold, High otherwise, as is_out and is_low classify it.
C10_OwnerStatusIsLiveStatus ==
    (owner_results # <<>> /\ ~owner_results[1].raised) =>
        \A i \in DOMAIN owner_results[1].results :
            LET r == owner_results[1].results[i] IN
            /\ r.status = LiveStatus(r.ingredient_name)
            /\ r.status = "Out" <=> is_out(inventory_levels, r.ingredient_name)
            /\ r.status = "Low" <=> (/\ is_low(inventory_levels, r.ingredient_name)
                                     /\ ~is_out(inventory_levels, r.ingredient_name))

\* The name api.py reads from an entry of the inventory collection.
EntryName(entry) ==
    IF "ingredient_name" \in DOMAIN entry.meta THEN entry.meta.ingredient_name ELSE None

\* The entries that are the first of their name, in the backend's order.
FirstOfName(entries) ==
    {i \in DOMAIN entries : \A j \in 1..(i - 1) : EntryName(entries[j]) # EntryName(entries[i])}

\* The k-th smallest element of a set of positions.
Kth(S, k) == CHOOSE i \in S : Cardinality({j \in S : j <= i}) = k

MetaOr(entry, key, default) ==
    IF key \in DOMAIN entry.meta THEN entry.meta[key] ELSE default

\* C11: find_inventory_candidates returns, for any backend result list, one
\* result per distinct ingredient name, built from the first entry carrying
\* the name (its quantity, unit, category and distance), in the backend's order.
C11_OneResultPerNameFirstKept ==
    (owner_results # <<>> /\ owner_results[1].endpoint = "owner_substitute") =>
        LET first == FirstOfName(owner_backend)
            out == owner_results[1].results
        IN  /\ ~owner_results[1].raised
            /\ Len(out) = Cardinality(first)
            /\ \A k \in DOMAIN out :
                 LET entry == owner_backend[Kth(first, k)] IN
                 /\ out[k].ingredient_name = EntryName(entry)
                 /\ out[k].current_quantity = MetaOr(entry, "current_quantity", 0)
                 /\ out[k].unit = MetaOr(entry, "unit", "units")
                 /\ out[k].category = MetaOr(entry, "category", "General")
                 /\ out[k].score = entry.distance

\* The status an ingredient's own threshold gives a quantity.
StatusByThreshold(name, quantity) ==
    IF quantity <= 0 THEN "Out"
    ELSE IF quantity < LiveThreshold(name) THEN "Low"
    ELSE "High"

\* C12: the full listing over the collection written by ingest_inventory
\* returns every tracked ingredient exactly once, with score 1.0 and the
\* status its own threshold gives.
C12_ListingHasEveryIngredientOnce ==
    (owner_results # <<>> /\ owner_results[1].endpoint = "get_inventory") =>
        LET out == owner_results[1].results IN
        /\ ~owner_results[1].raised
        /\ Len(out) = Cardinality(DOMAIN inventory_levels)
        /\ \A name \in DOMAIN inventory_levels :
             /\ Cardinality({k \in DOMAIN out : out[k].ingredient_name = name}) = 1
             /\ \A k \in DOMAIN out :
                  out[k].ingredient_name = name =>
                    /\ out[k].score = 1
                    /\ out[k].status = StatusByThreshold(name, out[k].current_quantity)

----------------------------------------------------------------------------
(* Properties of the resolver on unknown triggers *)

\* A trigger the snapshot does not track: a missing name, or a name no lot has.
Untracked(t) == t = None \/ t \notin DOMAIN inventory_levels

\* C13: a rule whose trigger name is missing or is not in the snapshot reads
\* quantity 0 and resolves to Out, and the menu item holding it is never
\* reported In Stock: it is Substituted or Out of Stock.
C13_UnknownTriggerNeverInStock ==
    phase = "responded" =>
        \A i \in DOMAIN candidates :
            \A j \in DOMAIN candidates[i].suggested_substitutions :
                LET t == TriggerOf(candidates[i].suggested_substitutions[j]) IN
                Untracked(t) =>
                    /\ get_quantity(inventory_levels, t) = 0
                    /\ is_out(inventory_levels, t)
                    /\ checked[i].availability_status \in {"Substituted", "Out of Stock"}
                    /\ \A k \in DOMAIN results :
                         results[k].id = candidates[i].id =>
                             results[k].availability_status # "In Stock"

\* A menu item whose first rule has a stocked trigger and whose second rule
\* has no trigger name, returned to the patron as Substituted.
C13_Witness ==
    /\ phase = "responded"
    /\ Len(candidates) = 1
    /\ Len(candidates[1].suggested_substitutions) >= 2
    /\ LET subs_list == candidates[1].suggested_substitutions IN
         /\ TriggerOf(subs_list[1]) \in DOMAIN inventory_levels
         /\ ~LiveOut(TriggerOf(subs_list[1])) /\ ~LiveLow(TriggerOf(subs_list[1]))
         /\ "trigger_ingredient" \notin DOMAIN subs_list[2]
    /\ Len(results) = 1
    /\ results[1].availability_status = "Substituted"

\* The rules of subs_list whose trigger is Low now, and their triggers.
LowRules(subs_list) == {j \in DOMAIN subs_list : LiveLow(TriggerOf(subs_list[j]))}
LowTriggers(subs_list) == {TriggerOf(subs_list[j]) : j \in LowRules(subs_list)}

\* C16: when no trigger is Out and two or more rules have distinct Low
\* triggers, the substitution offered is that of the first Low-trigger rule in
\* stored order.
C16_FirstLowRuleWins ==
    phase = "responded" =>
        \A i \in DOMAIN candidates :
            LET subs_list == candidates[i].suggested_substitutions IN
            (OutRules(subs_list) = {} /\ Cardinality(LowTriggers(subs_list)) >= 2) =>
                /\ checked[i].availability_status = "Substituted"
                /\ checked[i].substitution # <<>>
                /\ checked[i].substitution[1].suggested_item =
                      subs_list[Min(LowRules(subs_list))].suggest_item_name

----------------------------------------------------------------------------
(* Properties of a reload that cannot read the file *)

\* The file is missing or unreadable, has no name or quantity column, or has
\* a line the loop fails on (a line with too few fields).
ReloadFails(csv) ==
    \/ csv.kind \in {"missing", "unreadable"}
    \/ /\ csv.kind = "csv"
       /\ \/ FirstHeader(csv.headers, 1, NameHeaders) = None
          \/ FirstHeader(csv.headers, 1, QuantityHeaders) = None
          \/ \E i \in DOMAIN csv.rows : \E h \in DOMAIN csv.rows[i] : csv.rows[i][h] = None

\* C14: after any sequence of reloads, a reload that finds the file missing,
\* unreadable, without name or quantity column, or that fails part-way, leaves
\* the empty state: every ingredient quantity reads 0.
C14_FailedReloadLeavesEmpty ==
    (phase = "reloaded" /\ ReloadFails(inventory_csv)) =>
        \A name \in {"Beef", "Lettuce"} : get_quantity(inventory_levels, name) = 0

----------------------------------------------------------------------------
(* Properties of the service as a whole *)

\* C15: no search operation changes the inventory snapshot or the threshold
\* table; across the requests between two reloads both are unchanged, and
\* only reload_inventory writes the snapshot.
C15_SearchesLeaveTables ==
    [][/\ phase' = "responded" => inventory_levels' = inventory_levels
       /\ INGREDIENT_THRESHOLDS' = INGREDIENT_THRESHOLDS
       /\ inventory_levels' # inventory_levels => phase' = "reloaded"]_vars

\* After a reload that tracks Beef only, a patron_search has resolved a menu
\* item whose trigger Lettuce the snapshot does not hold, and returned it.
C15_Witness ==
    /\ phase = "responded"
    /\ DOMAIN inventory_levels = {"Beef"}
    /\ \E i \in DOMAIN candidates :
         /\ candidates[i].suggested_substitutions # <<>>
         /\ TriggerOf(candidates[i].suggested_substitutions[1]) = "Lettuce"
         /\ checked[i].availability_status = "Substituted"
    /\ results # <<>>

====
